---- MODULE Spec2Model ----
(***************************************************************************)
(* Model of dyPolyChord.run_dynamic_ns.run_dypolychord: the three-phase    *)
(* orchestration of an exploratory nested sampling run, the choice of the  *)
(* checkpoint to resume from, and the dynamic run.                         *)
(*                                                                         *)
(* The sampler (run_func), the statistics readers of nestcheck and the     *)
(* allocation routine are external to the function: what they return is a  *)
(* nondeterministic choice from bounded sets.                              *)
(***************************************************************************)
EXTENDS Integers, Sequences, FiniteSets, TLC

\* ------------------------------------------------------------------ bounds
\* The sampler reports between nlive + 1 and nlive + MaxDead dead points.
MaxDead == 2
\* The exploratory run that process_polychord_run loads has between
\* ninit + 1 and ninit + MaxRunLen points.
MaxRunLen == 3
\* One sampler invocation adds 0..MaxLikeStep likelihood evaluations.
MaxLikeStep == 1

\* ------------------------------------------------- constants of the program
DefaultNinit == 10
DefaultSeedIncrement == 100
DefaultNlive == 100

\* ---------------------------------------------------------------- settings
SettingsKeys ==
    {"nlive", "num_repeats", "file_root", "base_dir", "seed", "do_clustering",
     "max_ndead", "write_dead", "write_stats", "write_live",
     "write_paramnames", "equals", "cluster_posteriors", "nlives",
     "write_resume", "read_resume"}

default_settings ==
    [nlive |-> DefaultNlive, num_repeats |-> 20, file_root |-> "temp",
     base_dir |-> "chains", seed |-> -1, do_clustering |-> TRUE,
     max_ndead |-> -1, write_dead |-> TRUE, write_stats |-> TRUE,
     write_live |-> FALSE, write_paramnames |-> FALSE, equals |-> FALSE,
     cluster_posteriors |-> FALSE, nlives |-> <<>>, write_resume |-> FALSE,
     read_resume |-> FALSE]

\* for key, value in default_settings.items(): fill in the missing keys
FillDefaults(d) ==
    [k \in SettingsKeys |-> IF k \in DOMAIN d THEN d[k] ELSE default_settings[k]]

Restrict(d, K) == [k \in K |-> d[k]]

\* the value of kwargs.pop(key, default)
Pop(kw, key, default) == IF key \in DOMAIN kw THEN kw[key] ELSE default

KwargsKeys == {"ninit", "init_step", "nlive_const", "print_time",
               "seed_increment", "smoothing_filter"}

\* what is left of **kwargs after the six pops
Leftover(kw) == Restrict(kw, DOMAIN kw \ KwargsKeys)

\* a variant that lets every keyword option through
UnexpectedKwargsIgnored(kw) == FALSE

\* if kwargs: raise TypeError
UnexpectedKwargs(kw) == DOMAIN Leftover(kw) # {}

\* a variant without the second assertion
PresetOkNlivesOnly(s) == DOMAIN s.nlives = {}

\* assert not settings_dict_in['nlives']; assert not settings_dict_in['read_resume']
PresetOk(s) == DOMAIN s.nlives = {} /\ ~s.read_resume

\* os.path.join(base_dir, file_root)
Root(s) == s.base_dir \o "/" \o s.file_root

\* ---------------------------------------------------------- caller's inputs
\* The settings a caller may pass: a dictionary that leaves every key to the
\* defaults, or a full one.
CallerSettings ==
    {Restrict(default_settings, {})}
    \cup {[default_settings EXCEPT !.nlive = 3, !.seed = sd, !.max_ndead = md] :
            sd \in {-1, 2}, md \in {-1, 4}}
    \cup {[default_settings EXCEPT !.nlive = 3, !.seed = 2, !.write_resume = TRUE],
          [default_settings EXCEPT !.nlive = 3, !.read_resume = TRUE],
          [default_settings EXCEPT !.nlive = 3, !.nlives = <<4>>],
          [default_settings EXCEPT !.nlive = 3, !.nlives = <<4>>,
                                   !.read_resume = TRUE]}

\* The keyword options a caller may pass, "unexpected" being one that
\* run_dypolychord does not know.
CallerKwargs ==
    {Restrict([ninit |-> 0], {})}
    \cup {[ninit |-> ni, init_step |-> 3 - ni, seed_increment |-> si] :
            ni \in {1, 2}, si \in {-3, 0, 1}}
    \cup {[ninit |-> ni, nlive_const |-> 2, print_time |-> TRUE] : ni \in {1, 2}}
    \cup {[ninit |-> 2, unexpected |-> 1], [unexpected |-> 1]}

Goals == {0, 1}

\* ------------------------------------------------------------------- state
VARIABLES
    pc,                 \* position in run_dypolychord
    error,              \* the exception that ended the call, or "none"
    settings_dict_in,   \* the caller's dictionary (defaults are filled in place)
    kwargs,             \* the keyword options still unread
    dynamic_goal,
    ninit, init_step, nlive_const, seed_increment,
    settings_dict,      \* the working copy handed to run_func
    step_ndead,         \* list of ndead - nlive, one per exploratory increment
    outputs_at_resumes, \* dict: reported ndead -> run_output
    init_run,           \* number of points of the loaded exploratory run
    samp_tot,           \* target sample count, as the fraction <<num, den>>
    dyn_info,           \* dict returned by allocate (later extended)
    resume_ndead,       \* <<>> while unbound, <<n>> once assigned
    files,              \* file system: path -> contents
    fileops,            \* copies and removals done by run_dypolychord
    calls,              \* settings of every run_func invocation, in order
    stats,              \* run_output read after each exploratory increment
    saved,              \* what was pickled to <root>_dyn_info: <<>> or <<dict>>
    combination         \* one call of combine_resumed_dyn_run: arguments and result

vars == <<pc, error, settings_dict_in, kwargs, dynamic_goal, ninit, init_step,
          nlive_const, seed_increment, settings_dict, step_ndead,
          outputs_at_resumes, init_run, samp_tot, dyn_info, resume_ndead,
          files, fileops, calls, stats, saved, combination>>

locals == <<ninit, init_step, nlive_const, seed_increment>>
phaseA == <<step_ndead, outputs_at_resumes, stats>>
phaseB == <<init_run, samp_tot, dyn_info, resume_ndead>>
inputs == <<settings_dict_in, kwargs, dynamic_goal>>

EmptyDict == <<>>

\* No call of combine_resumed_dyn_run: run_dypolychord never makes one.
NoCombination == [init |-> <<>>, dyn |-> <<>>, resume_ndead |-> 0, run |-> <<>>]

\* The locals of run_dypolychord and its environment before the call.
Unstarted ==
    /\ error = "none"
    /\ ninit = 0 /\ init_step = 0 /\ nlive_const = 0 /\ seed_increment = 0
    /\ settings_dict = EmptyDict
    /\ step_ndead = <<>>
    /\ outputs_at_resumes = EmptyDict
    /\ init_run = 0
    /\ samp_tot = <<0, 1>>
    /\ dyn_info = EmptyDict
    /\ resume_ndead = <<>>
    /\ files = EmptyDict
    /\ fileops = <<>>
    /\ calls = <<>>
    /\ stats = <<>>
    /\ saved = <<>>

Init ==
    /\ pc = "start"
    /\ settings_dict_in \in CallerSettings
    /\ kwargs \in CallerKwargs
    /\ dynamic_goal \in Goals
    /\ Unstarted
    /\ combination = NoCombination

\* An exception leaves the function: nothing else changes.
Raise(exc) == pc' = "failed" /\ error' = exc

\* --------------------------------------------------------------- file system
Put(f, key, val) == [k \in DOMAIN f \cup {key} |-> IF k = key THEN val ELSE f[k]]
Exists(fs, p) == p \in DOMAIN fs
CopyFile(fs, src, dst) == Put(fs, dst, fs[src])
RemoveFiles(fs, ps) == [p \in DOMAIN fs \ ps |-> fs[p]]

Max(S) == CHOOSE m \in S : \A x \in S : x <= m
Min(S) == CHOOSE m \in S : \A x \in S : m <= x
Last(s) == s[Len(s)]
Range(s) == {s[i] : i \in DOMAIN s}

RECURSIVE Ascending(_)
\* the elements of a finite set of integers, in increasing order
Ascending(S) == IF S = {} THEN <<>> ELSE <<Min(S)>> \o Ascending(S \ {Min(S)})

\* ------------------------------------------------------------ the sampler
\* run_func(settings) is external. Invocation number inv writes its results
\* to <root>.stats, and its checkpoint to <root>.resume when write_resume is
\* set.
RunFunc(fs, s, inv) ==
    LET withStats == Put(fs, Root(s) \o ".stats", [kind |-> "stats", inv |-> inv])
    IN  IF s.write_resume
        THEN Put(withStats, Root(s) \o ".resume", [kind |-> "resume", inv |-> inv])
        ELSE withStats

\* The sampler stops at max_ndead dead points when that cap is positive, and
\* at its own termination point otherwise.
Capped(s) == s.max_ndead > 0
MostDead(s) == IF Capped(s) THEN Min({MaxDead, s.max_ndead}) ELSE MaxDead

\* nestcheck.data_processing.process_polychord_stats(file_root, base_dir):
\* what the statistics of the run can say after the invocation with settings
\* s, prev being the statistics read so far. ndead counts the final live
\* points besides at least one dead point, every live point has cost a
\* likelihood evaluation, and a resumed run loses neither dead points nor
\* evaluations.
process_polychord_stats(s, prev) ==
    LET lo == IF prev = <<>> THEN s.nlive + 1 ELSE Last(prev).ndead
        l0 == IF prev = <<>> THEN s.nlive ELSE Last(prev).nlike
    IN  [ndead : lo .. (s.nlive + MostDead(s)), nlike : l0 .. (l0 + MaxLikeStep)]

\* ------------------------------------------- lines 30-76: preparation
\* a variant that takes the checkpointed loop for every goal
CheckpointedAlways(goal) == TRUE

\* if dynamic_goal == 0: one run; else: the checkpointed loop
Checkpointed(goal) == goal # 0

\* settings_dict = deepcopy(settings_dict_in); file_root += '_init'; nlive = ninit
\* and, for the checkpointed loop, write_resume = True and read_resume = False
InitSettings(s, n, goal) ==
    LET base == [s EXCEPT !.file_root = s.file_root \o "_init", !.nlive = n]
    IN  IF Checkpointed(goal)
        THEN [base EXCEPT !.write_resume = TRUE, !.read_resume = FALSE]
        ELSE base

Setup ==
    /\ pc = "start"
    /\ LET filled == FillDefaults(settings_dict_in)
           n      == Pop(kwargs, "ninit", DefaultNinit)
       IN  /\ settings_dict_in' = filled
           /\ ninit' = n
           /\ init_step' = Pop(kwargs, "init_step", n)
           /\ nlive_const' = Pop(kwargs, "nlive_const", filled.nlive)
           /\ seed_increment' = Pop(kwargs, "seed_increment", DefaultSeedIncrement)
           /\ kwargs' = Leftover(kwargs)
           /\ IF UnexpectedKwargs(kwargs)
              THEN Raise("TypeError") /\ UNCHANGED settings_dict
              ELSE IF ~PresetOk(filled)
              THEN Raise("AssertionError") /\ UNCHANGED settings_dict
              ELSE /\ settings_dict' = InitSettings(filled, n, dynamic_goal)
                   /\ pc' = "initial_run"
                   /\ UNCHANGED error
    /\ UNCHANGED <<combination, dynamic_goal, phaseA, phaseB, files, fileops, calls, saved>>

\* ------------------------------------------ line 70: the single initial run
InitialRun ==
    /\ pc = "initial_run"
    /\ ~Checkpointed(dynamic_goal)
    /\ files' = RunFunc(files, settings_dict, Len(calls) + 1)
    /\ calls' = Append(calls, settings_dict)
    /\ pc' = "allocate"
    /\ UNCHANGED <<combination, error, inputs, locals, settings_dict, phaseA, phaseB,
                   fileops, saved>>

\* ------------------------------- lines 77-94: one checkpointed increment
\* a variant that never moves the seed
NextSeedSame(seed, increment) == seed

\* if settings_dict['seed'] >= 0: settings_dict['seed'] += seed_increment
NextSeed(seed, increment) == IF seed >= 0 THEN seed + increment ELSE seed

\* a variant whose cap lags one increment behind
StepSettingsCapBehind(s, k, step, increment) ==
    [s EXCEPT !.read_resume = IF k = 1 THEN TRUE ELSE @,
              !.max_ndead = k * step,
              !.seed = NextSeed(@, increment)]

\* the settings of the increment made when step_ndead has k entries
StepSettings(s, k, step, increment) ==
    [s EXCEPT !.read_resume = IF k = 1 THEN TRUE ELSE @,
              !.max_ndead = (k + 1) * step,
              !.seed = NextSeed(@, increment)]

\* a variant that compares the two counts the wrong way round
LoopBreaksOnDecrease(sn) == Len(sn) >= 2 /\ sn[Len(sn)] < sn[Len(sn) - 1]

\* a variant that stops after the second increment whatever it reports
LoopBreaksAfterTwo(sn) == Len(sn) >= 2

\* if len(step_ndead) >= 2 and step_ndead[-1] == step_ndead[-2]: break
LoopBreaks(sn) == Len(sn) >= 2 /\ sn[Len(sn)] = sn[Len(sn) - 1]

\* a variant that leaves the count out of the name
StepFileUnindexed(root, n) == root \o "_init_.resume"

StepFile(root, n) == root \o "_init_" \o ToString(n) \o ".resume"

\* while add_points: the effective counts grow from 1 to at most MaxDead and
\* then repeat, so the loop never needs more increments than this
MaxSteps == MaxDead + 2

ExploratoryStep ==
    /\ pc = "initial_run"
    /\ Checkpointed(dynamic_goal)
    /\ Len(step_ndead) < MaxSteps
    /\ LET s    == StepSettings(settings_dict, Len(step_ndead), init_step,
                                seed_increment)
           root == Root(settings_dict_in)
       IN  \E run_output \in process_polychord_stats(s, stats) :
             LET ran == RunFunc(files, s, Len(calls) + 1)
                 sn  == Append(step_ndead, run_output.ndead - s.nlive)
             IN  /\ settings_dict' = s
                 /\ calls' = Append(calls, s)
                 /\ stats' = Append(stats, run_output)
                 /\ outputs_at_resumes' =
                        Put(outputs_at_resumes, run_output.ndead, run_output)
                 /\ step_ndead' = sn
                 /\ IF LoopBreaks(sn)
                    THEN /\ files' = ran
                         /\ pc' = "allocate"
                         /\ UNCHANGED <<fileops, error>>
                    ELSE IF ~Exists(ran, root \o "_init.resume")
                    THEN /\ files' = ran
                         /\ Raise("FileNotFoundError")
                         /\ UNCHANGED fileops
                    ELSE /\ files' = CopyFile(ran, root \o "_init.resume",
                                              StepFile(root, Last(sn)))
                         /\ fileops' = Append(fileops,
                                [op |-> "copy", src |-> root \o "_init.resume",
                                 dst |-> StepFile(root, Last(sn))])
                         /\ UNCHANGED <<pc, error>>
    /\ UNCHANGED <<combination, inputs, locals, phaseB, saved>>

\* ----------------------------------------- lines 98-109: the allocation
\* variants without the assertions, and with the first one only
HeadroomOkAlways(s, runlen, nconst, n) == TRUE
HeadroomOkCapOnly(s, runlen, nconst, n) ==
    IF s.max_ndead > 0 THEN s.max_ndead > runlen ELSE TRUE

\* a variant whose comparisons also accept equality
HeadroomOkNotStrict(s, runlen, nconst, n) ==
    IF s.max_ndead > 0 THEN s.max_ndead >= runlen ELSE nconst >= n

\* the two assertions on the target number of samples
HeadroomOk(s, runlen, nconst, n) ==
    IF s.max_ndead > 0 THEN s.max_ndead > runlen ELSE nconst > n

\* samp_tot, as a fraction: max_ndead, or runlen * (nlive_const / ninit)
SampTot(s, runlen, nconst, n) ==
    IF s.max_ndead > 0 THEN <<s.max_ndead, 1>> ELSE <<runlen * nconst, n>>

\* dyPolyChord.nlive_allocation.allocate is external: any peak index within
\* the run, with a schedule of one count per dead point of the run, none
\* below ninit and the largest at the peak.
Allocations(runlen, n) ==
    {[peak_start_ind |-> peak,
      nlives_dict |-> [i \in 1 .. runlen |-> IF i = peak + 1 THEN n + 2 ELSE n]] :
        peak \in 0 .. (runlen - 1)}

Allocate ==
    /\ pc = "allocate"
    /\ \E runlen \in (ninit + 1) .. (ninit + MaxRunLen) :
         /\ init_run' = runlen
         /\ samp_tot' = SampTot(settings_dict_in, runlen, nlive_const, ninit)
         /\ IF ~HeadroomOk(settings_dict_in, runlen, nlive_const, ninit)
            THEN Raise("AssertionError") /\ UNCHANGED dyn_info
            ELSE /\ dyn_info' \in Allocations(runlen, ninit)
                 /\ pc' = "stage"
                 /\ UNCHANGED error
    /\ UNCHANGED <<combination, inputs, locals, settings_dict, phaseA, resume_ndead, files,
                   fileops, calls, saved>>

\* --------------------------- lines 110-120: stage the checkpoint to resume
\* np.where(resume_steps < peak_start_ind)[0], with resume_steps = step_ndead - 1
ResumeCandidates(sn, peak) == {i \in 1 .. Len(sn) : sn[i] - 1 < peak}

\* a variant that takes the first candidate: [0][0]
SelectResumeFirst(sn, peak) == sn[Min(ResumeCandidates(sn, peak))]

\* step_ndead[np.where(...)[0][-1]]
SelectResume(sn, peak) == sn[Max(ResumeCandidates(sn, peak))]

StageResume ==
    /\ pc = "stage"
    /\ LET peak == dyn_info.peak_start_ind
           root == Root(settings_dict_in)
       IN  IF peak = 0
           THEN pc' = "remove" /\ UNCHANGED <<error, resume_ndead, files, fileops>>
           ELSE IF ~Checkpointed(dynamic_goal)
           \* step_ndead was never assigned
           THEN Raise("NameError") /\ UNCHANGED <<resume_ndead, files, fileops>>
           ELSE IF ResumeCandidates(step_ndead, peak) = {}
           THEN Raise("IndexError") /\ UNCHANGED <<resume_ndead, files, fileops>>
           ELSE LET n == SelectResume(step_ndead, peak)
                IN  /\ resume_ndead' = <<n>>
                    /\ IF ~Exists(files, StepFile(root, n))
                       THEN Raise("FileNotFoundError") /\ UNCHANGED <<files, fileops>>
                       ELSE /\ files' = CopyFile(files, StepFile(root, n),
                                                 root \o "_dyn.resume")
                            /\ fileops' = Append(fileops,
                                   [op |-> "copy", src |-> StepFile(root, n),
                                    dst |-> root \o "_dyn.resume"])
                            /\ pc' = "remove"
                            /\ UNCHANGED error
    /\ UNCHANGED <<combination, inputs, locals, settings_dict, phaseA, init_run, samp_tot,
                   dyn_info, calls, saved>>

\* ------------------- lines 121-125: remove the step-indexed checkpoints
RemovalOps(root, counts) ==
    [i \in 1 .. Len(counts) |->
        [op |-> "remove", src |-> StepFile(root, counts[i]), dst |-> ""]]

\* a variant that walks the list itself, duplicates included
RemovalOrderOfList(sn) == sn

\* for snd in set(step_ndead): the counts in the order they are visited
RemovalOrder(sn) == Ascending(Range(sn))

RECURSIVE RemoveEach(_, _, _)
\* os.remove of one step file after the other; it stops at the first file
\* that is not there. done: the counts whose file was removed.
RemoveEach(fs, root, counts) ==
    IF counts = <<>>
    THEN [files |-> fs, done |-> <<>>, ok |-> TRUE]
    ELSE IF ~Exists(fs, StepFile(root, Head(counts)))
    THEN [files |-> fs, done |-> <<>>, ok |-> FALSE]
    ELSE LET rest == RemoveEach(RemoveFiles(fs, {StepFile(root, Head(counts))}),
                                root, Tail(counts))
         IN  [files |-> rest.files, done |-> <<Head(counts)>> \o rest.done,
              ok |-> rest.ok]

RemoveStepFiles ==
    /\ pc = "remove"
    /\ LET root == Root(settings_dict_in)
           r    == RemoveEach(files, root, RemovalOrder(step_ndead))
       IN  IF ~Checkpointed(dynamic_goal)
           THEN pc' = "dynamic_run" /\ UNCHANGED <<error, files, fileops>>
           ELSE /\ files' = r.files
                /\ fileops' = fileops \o RemovalOps(root, r.done)
                /\ IF r.ok
                   THEN pc' = "dynamic_run" /\ UNCHANGED error
                   ELSE Raise("FileNotFoundError")
    /\ UNCHANGED <<combination, inputs, locals, settings_dict, phaseA, phaseB, calls, saved>>

\* ------------------------------------- lines 128-141: the dynamic run
\* a variant that keeps the dictionary of the initial run
DynBaseKeepsInit(s_in, s_init) == s_init

\* settings_dict = copy.deepcopy(settings_dict_in)
DynBase(s_in, s_init) == s_in

\* a variant that always resumes
DynReadResumeAlways(info) == TRUE

\* settings_dict['read_resume'] = (dyn_info['peak_start_ind'] != 0)
DynReadResume(info) == info.peak_start_ind # 0

\* max(dyn_info['nlives_dict'].values()) when dynamic_goal == 0, else ninit
DynNlive(goal, info, n) ==
    IF goal = 0 THEN Max(Range(info.nlives_dict)) ELSE n

DynSeed(s_in, final_init_seed, increment) ==
    IF final_init_seed >= 0 THEN final_init_seed + increment ELSE s_in.seed

DynSettings(s_in, s_init, goal, info, n, increment) ==
    [DynBase(s_in, s_init) EXCEPT
        !.seed = DynSeed(s_in, s_init.seed, increment),
        !.nlive = DynNlive(goal, info, n),
        !.nlives = info.nlives_dict,
        !.read_resume = DynReadResume(info),
        !.file_root = s_in.file_root \o "_dyn"]

DynamicRun ==
    /\ pc = "dynamic_run"
    /\ IF settings_dict.seed >= 0 /\ ~(settings_dict_in.seed >= 0)
       THEN Raise("AssertionError") /\ UNCHANGED <<settings_dict, files, calls>>
       ELSE LET s == DynSettings(settings_dict_in, settings_dict, dynamic_goal,
                                 dyn_info, ninit, seed_increment)
            IN  /\ settings_dict' = s
                /\ files' = RunFunc(files, s, Len(calls) + 1)
                /\ calls' = Append(calls, s)
                /\ pc' = "save"
                /\ UNCHANGED error
    /\ UNCHANGED <<combination, inputs, locals, phaseA, phaseB, fileops, saved>>

\* --------------------------------- lines 142-146: save the allocation
SaveInfo ==
    /\ pc = "save"
    /\ LET root == Root(settings_dict_in)
       IN  IF dyn_info.peak_start_ind = 0
           THEN /\ saved' = <<dyn_info>>
                /\ files' = Put(files, root \o "_dyn_info", dyn_info)
                /\ pc' = "tidy"
                /\ UNCHANGED <<dyn_info, error>>
           ELSE IF resume_ndead[1] \notin DOMAIN outputs_at_resumes
           THEN /\ dyn_info' = Put(dyn_info, "resume_ndead", resume_ndead[1])
                /\ Raise("KeyError")
                /\ UNCHANGED <<saved, files>>
           ELSE LET info == Put(Put(dyn_info, "resume_ndead", resume_ndead[1]),
                                "resume_nlike",
                                outputs_at_resumes[resume_ndead[1]].nlike)
                IN  /\ dyn_info' = info
                    /\ saved' = <<info>>
                    /\ files' = Put(files, root \o "_dyn_info", info)
                    /\ pc' = "tidy"
                    /\ UNCHANGED error
    /\ UNCHANGED <<combination, inputs, locals, settings_dict, phaseA, init_run, samp_tot,
                   resume_ndead, fileops, calls>>

\* --------------------------- lines 150-154: remove the left-over checkpoints
Tidy ==
    /\ pc = "tidy"
    /\ LET root  == Root(settings_dict_in)
           there == {p \in {root \o "_init.resume", root \o "_dyn.resume"} :
                        Exists(files, p)}
           found == SelectSeq(<<root \o "_init.resume", root \o "_dyn.resume">>,
                              LAMBDA p : p \in there)
       IN  /\ files' = RemoveFiles(files, there)
           /\ fileops' = fileops \o
                 [i \in 1 .. Len(found) |->
                    [op |-> "remove", src |-> found[i], dst |-> ""]]
    /\ pc' = "done"
    /\ UNCHANGED <<combination, error, inputs, locals, settings_dict, phaseA, phaseB, calls,
                   saved>>

Next ==
    \/ Setup
    \/ InitialRun
    \/ ExploratoryStep
    \/ Allocate
    \/ StageResume
    \/ RemoveStepFiles
    \/ DynamicRun
    \/ SaveInfo
    \/ Tidy

Spec == Init /\ [][Next]_vars

\* Phase A on its own, lines 30-94. run_dypolychord is sequential code: the
\* statement it has reached is executed, and every call it makes returns.
PhaseANext ==
    \/ Setup
    \/ ExploratoryStep

PhaseASpec == Init /\ [][PhaseANext]_vars /\ WF_vars(PhaseANext)

\* ------------------------------------------------ combine_resumed_dyn_run
\* A run is its sequence of dead points, each with its logl and thread label.
MaxPoints == 3
MaxLogl == 2

\* the two threads of the runs the test builds
ThreadLabels == {0, 1}

Point(l, t) == [logl |-> l, thread_label |-> t]
Points == {Point(l, t) : l \in 0 .. MaxLogl, t \in ThreadLabels}

Logls(run) == [i \in 1 .. Len(run) |-> run[i].logl]
Labels(run) == [i \in 1 .. Len(run) |-> run[i].thread_label]

NonDecreasing(run) == \A i \in 1 .. Len(run) - 1 : run[i].logl <= run[i + 1].logl
NoDuplicates(run) == \A i, j \in 1 .. Len(run) : run[i] = run[j] => i = j
\* the Run Record invariants
ValidRun(run) == NonDecreasing(run) /\ NoDuplicates(run)

Runs == {run \in UNION {[1 .. n -> Points] : n \in 1 .. MaxPoints} : ValidRun(run)}

\* the runs of test_combine_resumed_dyn_run
TestInit == <<Point(0, 0), Point(1, 1), Point(2, 0), Point(3, 1)>>
TestDyn == <<Point(0, 0), Point(1, 1), Point(2, 0), Point(4, 1), Point(5, 0), Point(6, 1)>>
TestResumeNdead == 1

Call(i, d, n) == [init |-> i, dyn |-> d, resume_ndead |-> n, run |-> <<>>]

\* the likelihood at which the checkpoint was taken (below every logl if none died)
Boundary(init, n) == IF n = 0 THEN -1 ELSE init[n].logl

\* a variant that also takes the point that died at the checkpoint
BeyondOrAt(p, b) == p.logl >= b
BeyondBoundary(p, b) == p.logl > b

MaxLabel(run) == IF run = <<>> THEN 0 ELSE Max({run[i].thread_label : i \in 1 .. Len(run)})
Relabel(run, offset) ==
    [i \in 1 .. Len(run) |-> [run[i] EXCEPT !.thread_label = @ + offset]]

\* the resumed run repeats the likelihood at which the checkpoint was taken
BoundaryAgrees(init, dyn, n) ==
    n = 0 \/ (n <= Len(dyn) /\ dyn[n].logl = init[n].logl)

combine_resumed_dyn_run(init, dyn, n) ==
    LET kept   == SubSeq(init, 1, n)
        b      == Boundary(init, n)
        beyond == SelectSeq(dyn, LAMBDA p : BeyondBoundary(p, b))
    IN  kept \o Relabel(beyond, MaxLabel(kept))

CombineInit ==
    /\ pc = "combine"
    /\ settings_dict_in = EmptyDict /\ kwargs = EmptyDict /\ dynamic_goal = 0
    /\ Unstarted
    /\ \/ combination = Call(TestInit, TestDyn, TestResumeNdead)
       \/ \E i \in Runs, d \in Runs :
             \E n \in 0 .. Len(i) : combination = Call(i, d, n)

Combine ==
    /\ pc = "combine"
    /\ LET c == combination
       IN  IF ~BoundaryAgrees(c.init, c.dyn, c.resume_ndead)
           THEN Raise("ConsistencyError") /\ UNCHANGED combination
           ELSE /\ combination' = [c EXCEPT !.run =
                                     combine_resumed_dyn_run(c.init, c.dyn, c.resume_ndead)]
                /\ pc' = "combined"
                /\ UNCHANGED error
    /\ UNCHANGED <<inputs, locals, settings_dict, phaseA, phaseB, files, fileops,
                   calls, saved>>

CombineNext == Combine

CombineSpec == CombineInit /\ [][CombineNext]_vars

\* ================================================================ properties
\* The caller's dictionary with the defaults filled in.
Base == FillDefaults(settings_dict_in)
BaseRoot == Root(Base)
DynResume == BaseRoot \o "_dyn.resume"
InitResume == BaseRoot \o "_init.resume"

\* the invocations of the exploratory and of the dynamic run
InitCalls == {i \in 1 .. Len(calls) : calls[i].file_root = Base.file_root \o "_init"}
DynCalls == {i \in 1 .. Len(calls) : calls[i].file_root = Base.file_root \o "_dyn"}

\* the copies of Phase A: the j-th one keeps the checkpoint of increment j
\* under the name of step_ndead[j]
Registry == {j \in 1 .. Len(fileops) :
                fileops[j].op = "copy" /\ fileops[j].src = InitResume}

\* the copy of Phase B into the resume slot of the dynamic run
StagingOps == {j \in 1 .. Len(fileops) :
                  fileops[j].op = "copy" /\ fileops[j].dst = DynResume}
Staged == StagingOps # {}

\* the increment whose checkpoint was staged
StagedInv ==
    Max({j \in Registry : fileops[j].dst = fileops[Max(StagingOps)].src})

AtMostPeak == {j \in Registry : step_ndead[j] <= dyn_info.peak_start_ind}
BelowPeak == {j \in Registry : step_ndead[j] < dyn_info.peak_start_ind}

\* C1 (as amended): right after Phase B has staged a checkpoint for a peak
\* index other than 0, <root>_dyn.resume holds the checkpoint of the latest
\* exploratory increment whose dead-point count (ndead - nlive, the count its
\* copy is named by) is at most the peak index.
C1_StagedIsLatestAtMostPeak ==
    (pc = "remove" /\ dyn_info.peak_start_ind # 0) =>
        /\ Exists(files, DynResume)
        /\ AtMostPeak # {}
        /\ files[DynResume] = [kind |-> "resume", inv |-> Max(AtMostPeak)]

\* C1 as stated: the staged checkpoint is the latest one whose dead-point
\* count is strictly less than the peak index.
C1_StagedIsLatestBelowPeak ==
    (pc = "remove" /\ dyn_info.peak_start_ind # 0) =>
        /\ Exists(files, DynResume)
        /\ BelowPeak # {}
        /\ files[DynResume] = [kind |-> "resume", inv |-> Max(BelowPeak)]

\* C1 witness: a checkpoint was staged although an earlier one qualified too.
C1_Witness ==
    /\ pc = "remove"
    /\ dyn_info.peak_start_ind # 0
    /\ Staged
    /\ Cardinality(AtMostPeak) >= 2
    /\ files[DynResume].inv = Max(AtMostPeak)

\* C2: every invocation of the dynamic run has read_resume set if and only
\* if Phase B copied a checkpoint to <root>_dyn.resume.
C2_ReadResumeIffStaged ==
    \A i \in DynCalls : calls[i].read_resume <=> Staged

\* C2 witness: the dynamic run was launched with read_resume after a staging.
C2_Witness ==
    \E i \in DynCalls : calls[i].read_resume /\ Staged /\ dynamic_goal # 0

\* C3 as stated: once the dynamic run has resumed from a checkpoint and the
\* metadata step is over, <root>_dyn_info is written, its resume_ndead is the
\* dead-point count of the staged checkpoint and its resume_nlike is the
\* nlike read after the increment that wrote this checkpoint; the lookup
\* never fails.
C3_ResumeMetadataOfStagedCheckpoint ==
    (/\ \E i \in DynCalls : calls[i].read_resume
     /\ pc \in {"tidy", "done", "failed"}) =>
        /\ error # "KeyError"
        /\ saved # <<>>
        /\ saved[1].resume_ndead = step_ndead[StagedInv]
        /\ saved[1].resume_nlike = stats[StagedInv].nlike

SeedRule(i) ==
    IF i = 1
    THEN IF dynamic_goal = 0 THEN Base.seed ELSE Base.seed + seed_increment
    ELSE calls[i - 1].seed + seed_increment

SeedsDistinct ==
    \A i, j \in 1 .. Len(calls) : i # j => calls[i].seed # calls[j].seed

\* C5 as stated: with a non-negative configured seed every checkpointed
\* invocation and the dynamic one use the previous seed plus seed_increment
\* and no two invocations share a seed; with a negative one every invocation
\* gets the configured seed.
C5_SeedsAdvance ==
    IF Base.seed >= 0
    THEN (\A i \in 1 .. Len(calls) : calls[i].seed = SeedRule(i)) /\ SeedsDistinct
    ELSE \A i \in 1 .. Len(calls) : calls[i].seed = Base.seed

\* C5 (as amended): the same, for a positive seed_increment.
C5_SeedsAdvanceForPositiveIncrement ==
    (calls # <<>> /\ (Base.seed >= 0 => seed_increment > 0)) => C5_SeedsAdvance

\* C5 witness: three invocations of one run with a tracked seed.
C5_Witness ==
    /\ Base.seed >= 0
    /\ seed_increment > 0
    /\ Len(calls) >= 3
    /\ DynCalls # {}

\* C6: for goal 0 the exploratory run is one invocation, made with
\* nlive = ninit and the caller's write_resume and max_ndead, and a run that
\* ends normally has made two invocations: that one and the dynamic one.
C6_GoalZeroSingleInitialRun ==
    dynamic_goal = 0 =>
        /\ Cardinality(InitCalls) <= 1
        /\ pc \notin {"start", "initial_run", "failed"} => InitCalls = {1}
        /\ \A i \in InitCalls :
              /\ calls[i].nlive = ninit
              /\ calls[i].write_resume = Base.write_resume
              /\ calls[i].max_ndead = Base.max_ndead
              /\ ~calls[i].read_resume
        /\ pc = "done" => Len(calls) = 2 /\ InitCalls = {1} /\ DynCalls = {2}

\* C6 witness: a run for goal 0 that ended normally.
C6_Witness == dynamic_goal = 0 /\ pc = "done" /\ Len(calls) = 2

NothingDone == calls = <<>> /\ fileops = <<>> /\ files = EmptyDict

\* C7: a call with a keyword option that run_dypolychord does not know ends
\* with a TypeError, whatever the goal, without a sampler invocation and
\* without any file written, copied or removed.
C7_UnexpectedKwargsFail ==
    "unexpected" \in DOMAIN kwargs =>
        /\ pc \in {"start", "failed"}
        /\ pc = "failed" => error = "TypeError"
        /\ NothingDone

\* C7 witness: the TypeError for goal 0 (the other goal has one as well).
C7_Witness ==
    /\ "unexpected" \in DOMAIN kwargs
    /\ pc = "failed"
    /\ error = "TypeError"
    /\ dynamic_goal = 0

\* C8: a call whose settings carry a non-empty nlives or a set read_resume
\* fails at once, without a sampler invocation and without a file operation.
C8_PresetSettingsFail ==
    (DOMAIN Base.nlives # {} \/ Base.read_resume) =>
        /\ pc \in {"start", "failed"}
        /\ pc = "failed" => error \in {"AssertionError", "TypeError"}
        /\ NothingDone

\* C8 witness: the assertion on read_resume alone has fired.
C8_Witness ==
    /\ Base.read_resume
    /\ DOMAIN Base.nlives = {}
    /\ pc = "failed"
    /\ error = "AssertionError"

\* The target number of samples is insufficient for the exploratory run
\* that was loaded: the cap does not exceed its length or, without a cap,
\* nlive_const does not exceed ninit.
InsufficientTarget ==
    /\ init_run >= 1
    /\ \/ Base.max_ndead > 0 /\ Base.max_ndead <= init_run
       \/ Base.max_ndead <= 0 /\ nlive_const <= ninit

\* C9 as stated: an insufficient target is reported before any sampler
\* invocation.
C9_InsufficientTargetBeforeSampler ==
    InsufficientTarget => pc = "failed" /\ calls = <<>>

\* C9 (as amended): an insufficient target ends the call with an assertion
\* failure after the exploratory invocations and before any dynamic one.
C9_InsufficientTargetBeforeDynamicRun ==
    InsufficientTarget =>
        /\ pc = "failed"
        /\ error = "AssertionError"
        /\ calls # <<>>
        /\ InitCalls = 1 .. Len(calls)

\* C9 witness: the assertion on nlive_const has fired after Phase A.
C9_Witness ==
    /\ InsufficientTarget
    /\ Base.max_ndead <= 0
    /\ pc = "failed"
    /\ calls # <<>>

\* C10: with an insufficient target Phase A has run but nothing of what
\* follows has: no allocation, no staged checkpoint, no dynamic invocation,
\* no <root>_dyn_info.
C10_InsufficientTargetStopsBeforePhaseC ==
    InsufficientTarget =>
        /\ pc = "failed"
        /\ InitCalls # {}
        /\ dyn_info = EmptyDict
        /\ ~Staged
        /\ ~Exists(files, DynResume)
        /\ DynCalls = {}
        /\ saved = <<>>
        /\ ~Exists(files, BaseRoot \o "_dyn_info")

\* C10 witness: the failure after a checkpointed Phase A, with a cap.
C10_Witness ==
    /\ InsufficientTarget
    /\ Base.max_ndead > 0
    /\ dynamic_goal # 0
    /\ Registry # {}
    /\ pc = "failed"

\* the files that hold a checkpoint
ResumeFiles ==
    {p \in DOMAIN files : "kind" \in DOMAIN files[p] /\ files[p].kind = "resume"}

\* the removals of the step file of count n
StepRemovals(n) ==
    {j \in 1 .. Len(fileops) :
        fileops[j].op = "remove" /\ fileops[j].src = StepFile(BaseRoot, n)}

\* C11: no removal ever fails for a missing file; for a goal other than 0,
\* once Phase B has removed the step files, the file of every count of
\* step_ndead has been removed exactly once and none is left; after a run
\* that ended normally no checkpoint file is left at all.
C11_CheckpointFilesRemoved ==
    /\ error # "FileNotFoundError"
    /\ (dynamic_goal # 0 /\ pc \in {"dynamic_run", "save", "tidy", "done"}) =>
          \A n \in Range(step_ndead) :
              /\ Cardinality(StepRemovals(n)) = 1
              /\ ~Exists(files, StepFile(BaseRoot, n))
    /\ pc = "done" => ResumeFiles = {} /\ error = "none"

\* C11 witness: a normal end after a checkpointed Phase A with two distinct
\* counts, the last one twice, and no <root>_dyn.resume to tidy up.
C11_Witness ==
    /\ pc = "done"
    /\ dynamic_goal # 0
    /\ Cardinality(Range(step_ndead)) >= 2
    /\ Len(step_ndead) > Cardinality(Range(step_ndead))
    /\ ~\E j \in 1 .. Len(fileops) : fileops[j].src = DynResume

\* ------------------------------------------------------------------ C12
\* C12: combine_resumed_dyn_run returns the first resume_ndead points of the
\* prefix run unchanged, followed by exactly the points of the resumed run
\* strictly beyond the checkpoint boundary with labels offset by the largest
\* kept label; on the runs of the test with resume_ndead = 1 the result has
\* logl [0,1,2,3,4,5,6] and thread labels [0,1,0,2,1,0,1].
C12_CombineKeepsPrefixAppendsBeyond ==
    pc = "combined" =>
        LET c    == combination
            kept == SubSeq(c.init, 1, c.resume_ndead)
            rest == SubSeq(c.run, c.resume_ndead + 1, Len(c.run))
        IN  /\ SubSeq(c.run, 1, c.resume_ndead) = kept
            /\ rest = Relabel(SelectSeq(c.dyn,
                                 LAMBDA p : p.logl > Boundary(c.init, c.resume_ndead)),
                               MaxLabel(kept))
            /\ (c.init = TestInit /\ c.dyn = TestDyn /\ c.resume_ndead = TestResumeNdead) =>
                  /\ Logls(c.run) = <<0, 1, 2, 3, 4, 5, 6>>
                  /\ Labels(c.run) = <<0, 1, 0, 2, 1, 0, 1>>

CutOff(k) == Capped(calls[k]) /\ step_ndead[k] >= calls[k].max_ndead

\* the loop of lines 77-94 has been left
LoopLeft == dynamic_goal # 0 /\ step_ndead # <<>> /\ pc # "initial_run"

\* C14: for dynamic_goal != 0 the loop makes at least two invocations, stops at
\* the first increment whose effective count ndead - nlive equals that of the
\* increment before, and the invocation it stops after was not cut off by its
\* max_ndead cap.
C14_LoopStopsAfterNaturalFinish ==
    (dynamic_goal # 0 /\ step_ndead # <<>>) =>
        LET n == Len(step_ndead)
        IN  /\ \A k \in 2 .. n - 1 : step_ndead[k] # step_ndead[k - 1]
            /\ (pc = "initial_run" /\ n >= 2) => step_ndead[n] # step_ndead[n - 1]
            /\ LoopLeft =>
                  /\ n >= 2
                  /\ step_ndead[n] = step_ndead[n - 1]
                  /\ ~CutOff(n)

\* the loop was left after two increments that were cut off and a third that
\* was not
C14_Witness ==
    /\ LoopLeft
    /\ Len(step_ndead) = 3
    /\ CutOff(1) /\ CutOff(2)

\* ------------------------------------------------------------------ C15
\* the loop is left by the break of lines 89-91 only
LeavesByBreak ==
    (pc = "initial_run" /\ Checkpointed(dynamic_goal) /\ pc' # "initial_run") =>
        /\ pc' = "allocate"
        /\ Len(step_ndead') >= 2
        /\ step_ndead'[Len(step_ndead')] = step_ndead'[Len(step_ndead') - 1]

\* C15: for dynamic_goal != 0 and init_step > 0, with a sampler whose dead
\* point count stops growing, the loop of Phase A ends after finitely many
\* invocations and the run goes on to the allocation; the break on a repeated
\* count is the only way out of the loop.
C15_LoopTerminates ==
    /\ (pc = "initial_run" /\ dynamic_goal # 0 /\ init_step > 0) ~> (pc = "allocate")
    /\ [][LeavesByBreak]_vars

\* the loop has reached the allocation after more than two invocations
C15_Witness ==
    /\ pc = "allocate" /\ dynamic_goal # 0 /\ init_step > 0
    /\ Len(step_ndead) >= 3
    /\ Len(calls) = Len(step_ndead)

\* ------------------------------------------------------------------ C16
\* C16: the k-th exploratory invocation is made with max_ndead = k * init_step,
\* write_resume True and nlive = ninit; the first has read_resume False and
\* every later one read_resume True.
C16_ExploratorySettings ==
    dynamic_goal # 0 =>
        \A k \in 1 .. Len(stats) :
            /\ calls[k].max_ndead = k * init_step
            /\ calls[k].write_resume = TRUE
            /\ calls[k].nlive = ninit
            /\ calls[k].read_resume = (k >= 2)
            /\ calls[k].file_root = Base.file_root \o "_init"

\* three exploratory invocations with a step different from ninit
C16_Witness ==
    /\ dynamic_goal # 0
    /\ Len(stats) >= 3
    /\ init_step # ninit

\* ------------------------------------------------------------------ C17
\* <root>_init_<n>.resume, spelled out
IndexedName(n) == BaseRoot \o "_init_" \o ToString(n) \o ".resume"

\* C17: when the next exploratory invocation is about to begin, the checkpoint
\* of every invocation so far has been copied to the name indexed by its
\* count; and as long as the file named by a count exists it holds a
\* checkpoint written at that count.
C17_CheckpointsCopiedBeforeNextRun ==
    dynamic_goal # 0 =>
        /\ pc = "initial_run" =>
              \A k \in 1 .. Len(step_ndead) :
                  /\ Exists(files, IndexedName(step_ndead[k]))
                  /\ files[IndexedName(step_ndead[k])] = [kind |-> "resume", inv |-> k]
        /\ \A k \in 1 .. Len(step_ndead) :
              Exists(files, IndexedName(step_ndead[k])) =>
                  LET written == files[IndexedName(step_ndead[k])]
                  IN  /\ written.kind = "resume"
                      /\ written.inv \in 1 .. Len(step_ndead)
                      /\ step_ndead[written.inv] = step_ndead[k]

\* two checkpoints are in place and a third invocation is about to begin
C17_Witness ==
    /\ pc = "initial_run" /\ dynamic_goal # 0
    /\ Len(step_ndead) = 2
    /\ Exists(files, IndexedName(step_ndead[1]))
    /\ Exists(files, IndexedName(step_ndead[2]))
    /\ files[InitResume].inv = 2

\* ------------------------------------------------------------------ C18
\* C18: for dynamic_goal != 0 and a peak index other than 0 some checkpoint of
\* Phase A qualifies, so Phase B stages one and never fails for want of a
\* candidate, also when the peak lies below init_step - 1.
C18_StagingFindsCheckpoint ==
    (/\ dynamic_goal # 0
     /\ dyn_info # EmptyDict
     /\ dyn_info.peak_start_ind # 0
     /\ pc # "stage") =>
        /\ error # "IndexError"
        /\ Staged

\* ------------------------------------------------------------------ C19
\* C19: for dynamic_goal = 0 the steps after the allocation read neither
\* step_ndead nor outputs_at_resumes, so the call completes whatever peak
\* index the allocation returns.
C19_GoalZeroCompletes ==
    (dynamic_goal = 0 /\ dyn_info # EmptyDict) =>
        /\ error = "none"
        /\ pc # "failed"

\* ------------------------------------------------------------------ C20
\* allocate has been called (it is the only step that sets dyn_info)
AllocateCalled == dyn_info # EmptyDict

\* C20: whenever run_dypolychord calls allocate, the target number of samples
\* it passes is strictly greater than the number of dead points of the
\* exploratory run, both when it is the caller's max_ndead and when it is
\* computed as len * (nlive_const / ninit).
C20_TargetExceedsExploratoryRun ==
    AllocateCalled =>
        /\ samp_tot[2] > 0
        /\ samp_tot[1] > init_run * samp_tot[2]
        /\ settings_dict_in.max_ndead > 0 => samp_tot = <<settings_dict_in.max_ndead, 1>>
        /\ settings_dict_in.max_ndead <= 0 => samp_tot = <<init_run * nlive_const, ninit>>

\* allocate was called with a computed target whose ratio nlive_const / ninit
\* lies between 1 and 2
C20_Witness ==
    /\ AllocateCalled
    /\ settings_dict_in.max_ndead <= 0
    /\ nlive_const < 2 * ninit
    /\ init_run > 0

====
